---- MODULE Spec2Model ----
(***************************************************************************)
(* Model of the driving-school backend (src/backend/server.py): the        *)
(* enrollment rules of create_course, the outcome propagation of           *)
(* update_exam and update_payment, and the slot allocation of              *)
(* create_schedule, over the MongoDB collections courses, payments, exams  *)
(* and schedules.                                                          *)
(*                                                                         *)
(* A document id is the position of the document in its collection (the    *)
(* code draws a fresh uuid4 per document and never deletes a document).    *)
(* Instants are minutes since an epoch that is a local midnight.           *)
(***************************************************************************)
EXTENDS Integers, Sequences, FiniteSets, Bags, TLC

VARIABLES
    school_flags, \* db.driving_schools: has_male_teachers, has_female_teachers by id
    teachers,   \* db.teachers: set of Teacher documents
    courses,    \* db.courses: sequence of Course documents, id = index
    payments,   \* db.payments: sequence of Payment documents, id = index
    exams,      \* db.exams: sequence of Exam documents, id = index
    schedules,  \* db.schedules: bag of Schedule documents (ids left out)
    procs,      \* the create_course requests in flight, one per worker
    resp        \* the response of the last finished request

vars == <<school_flags, teachers, courses, payments, exams, schedules, procs, resp>>

----------------------------------------------------------------------------
(* Bounds of the model *)

MaxCourses == 2
MaxExams == 1

----------------------------------------------------------------------------
(* Enumerations *)

UserRole == {"student", "teacher", "manager", "admin"}
Gender == {"male", "female", "other"}
CourseType == {"code", "parking", "road"}
CourseStatus == {"not_started", "in_progress", "completed", "failed"}
ExamStatus == {"scheduled", "passed", "failed"}
PaymentStatus == {"pending", "completed", "failed", "refunded"}

----------------------------------------------------------------------------
(* The Account Directory and the schools: documents of db.users and        *)
(* db.driving_schools.  No operation of the model writes them, but for the *)
(* two flags of a school that create_teacher sets (school_flags).          *)

Users ==
    {[id |-> "s1",  role |-> "student", gender |-> "male"],
     [id |-> "s2",  role |-> "student", gender |-> "female"],
     [id |-> "tu1", role |-> "teacher", gender |-> "male"],
     [id |-> "tu2", role |-> "teacher", gender |-> "female"],
     [id |-> "m1",  role |-> "manager", gender |-> "male"],
     [id |-> "a1",  role |-> "admin",   gender |-> "female"]}

DrivingSchools ==
    {[id |-> "sch1", price_code |-> 10, price_parking |-> 20, price_road |-> 30],
     [id |-> "sch2", price_code |-> 15, price_parking |-> 25, price_road |-> 35]}

\* Teacher documents as create_teacher inserts them.  The gender of a Teacher
\* document is the request's, which create_teacher does not compare with the
\* linked user's: t2 is a document written for the female user tu2 with
\* gender male.
InitTeachers ==
    {[id |-> "t1", user_id |-> "tu1", driving_school_id |-> "sch1", gender |-> "male"],
     [id |-> "t2", user_id |-> "tu2", driving_school_id |-> "sch1", gender |-> "male"]}

\* the flags of the schools once the teachers ts were created
FlagsOf(ts) ==
    [d \in {x.id : x \in DrivingSchools} |->
        [has_male_teachers |->
            \E t \in ts : t.driving_school_id = d /\ t.gender = "male",
         has_female_teachers |->
            \E t \in ts : t.driving_school_id = d /\ t.gender = "female"]]

\* db.<collection>.find_one({"id": id}): the document, or None
None == [id |-> "None"]

FindUser(id) ==
    IF \E u \in Users : u.id = id THEN CHOOSE u \in Users : u.id = id ELSE None

FindSchool(id) ==
    IF \E s \in DrivingSchools : s.id = id
    THEN CHOOSE s \in DrivingSchools : s.id = id ELSE None

FindTeacher(ts, id) ==
    IF \E t \in ts : t.id = id THEN CHOOSE t \in ts : t.id = id ELSE None

\* db.teachers.find_one({"user_id": uid})
FindTeacherByUser(ts, uid) ==
    IF \E t \in ts : t.user_id = uid THEN CHOOSE t \in ts : t.user_id = uid ELSE None

----------------------------------------------------------------------------
(* create_teacher *)

\* the request body (TeacherCreate), without the fields no handler reads
TeacherCreate(user_id, driving_school_id, gender) ==
    [user_id |-> user_id, driving_school_id |-> driving_school_id, gender |-> gender]

CreateTeacherError(caller, req) ==
    IF caller.role # "manager" /\ caller.role # "admin" THEN "Forbidden"
    ELSE IF FindUser(req.user_id) = None \/ FindUser(req.user_id).role # "teacher"
    THEN "InvalidUser"
    ELSE IF FindSchool(req.driving_school_id) = None THEN "InvalidSchool"
    ELSE "ok"

\* the ids of Teacher documents in the order of their creation (the code
\* draws a uuid4 per document)
TeacherIdNames == <<"t1", "t2", "t3">>

\* new_teacher = Teacher(**teacher.dict()): user, school and gender as
\* requested
NewTeacher(ts, req) ==
    [id |-> TeacherIdNames[Cardinality(ts) + 1], user_id |-> req.user_id,
     driving_school_id |-> req.driving_school_id, gender |-> req.gender]

\* the flags of the school after a teacher of a gender joined it
FlagsWith(flags, gender) ==
    IF gender = "male" /\ ~flags.has_male_teachers
    THEN [flags EXCEPT !.has_male_teachers = TRUE]
    ELSE IF gender = "female" /\ ~flags.has_female_teachers
    THEN [flags EXCEPT !.has_female_teachers = TRUE]
    ELSE flags

create_teacher(caller, req) ==
    LET err == CreateTeacherError(caller, req)
    IN  /\ IF err # "ok"
           THEN UNCHANGED <<teachers, school_flags>>
           ELSE /\ teachers' = teachers \cup {NewTeacher(teachers, req)}
                /\ school_flags' = [school_flags EXCEPT ![req.driving_school_id] =
                       FlagsWith(school_flags[req.driving_school_id], req.gender)]
        /\ resp' = [op |-> "create_teacher", err |-> err]
        /\ UNCHANGED <<courses, payments, exams, schedules, procs>>

----------------------------------------------------------------------------
(* create_course *)

\* the request body (CourseCreate); status is a field of the body
CourseCreate(student_id, teacher_id, driving_school_id, type, status) ==
    [student_id |-> student_id, teacher_id |-> teacher_id,
     driving_school_id |-> driving_school_id, type |-> type, status |-> status]

\* student = find_one(...); not student or student["role"] != STUDENT
StudentInvalid(req) ==
    LET student == FindUser(req.student_id)
    IN  student = None \/ student.role # "student"

\* mutant: compares the gender field of the Teacher document
GenderDiffers_TeacherDocument(ts, req) ==
    LET teacher == FindTeacher(ts, req.teacher_id)
        student == FindUser(req.student_id)
    IN  teacher.gender # student.gender

\* teacher_user["gender"] != student["gender"]
GenderDiffers(ts, req) ==
    LET teacher == FindTeacher(ts, req.teacher_id)
        teacher_user == FindUser(teacher.user_id)
        student == FindUser(req.student_id)
    IN  teacher_user.gender # student.gender

\* db.courses.find_one({student_id, type, status: COMPLETED}) finds a document
HasCompleted(cs, student_id, type) ==
    \E i \in 1..Len(cs) :
        /\ cs[i].student_id = student_id
        /\ cs[i].type = type
        /\ cs[i].status = "completed"

\* mutant: only a course that has not started counts as an enrollment
HasNotFailed_OnlyNotStarted(cs, student_id, type) ==
    \E i \in 1..Len(cs) :
        /\ cs[i].student_id = student_id
        /\ cs[i].type = type
        /\ cs[i].status = "not_started"

\* mutant: a failed course counts as an enrollment too
HasNotFailed_AnyStatus(cs, student_id, type) ==
    \E i \in 1..Len(cs) :
        /\ cs[i].student_id = student_id
        /\ cs[i].type = type

\* db.courses.find_one({student_id, type, status: {$ne: FAILED}}) finds a document
HasNotFailed(cs, student_id, type) ==
    \E i \in 1..Len(cs) :
        /\ cs[i].student_id = student_id
        /\ cs[i].type = type
        /\ cs[i].status # "failed"

\* mutant: the road branch looks for a completed code course
PrerequisiteMissing_RoadAsksCode(cs, req) ==
    \/ req.type = "parking" /\ ~HasCompleted(cs, req.student_id, "code")
    \/ req.type = "road" /\ ~HasCompleted(cs, req.student_id, "code")

\* the type-specific prerequisite of the elif chain: none for code
PrerequisiteMissing(cs, req) ==
    \/ req.type = "parking" /\ ~HasCompleted(cs, req.student_id, "code")
    \/ req.type = "road" /\ ~HasCompleted(cs, req.student_id, "parking")

\* mutant: the school is looked up before the student and the teacher
ReferenceError_SchoolFirst(ts, req) ==
    IF FindSchool(req.driving_school_id) = None THEN "InvalidSchool"
    ELSE IF StudentInvalid(req) THEN "InvalidStudent"
    ELSE IF FindTeacher(ts, req.teacher_id) = None THEN "InvalidTeacher"
    ELSE IF GenderDiffers(ts, req) THEN "GenderMismatch"
    ELSE "ok"

\* the checks on student, teacher, school and gender, in the order of the code
ReferenceError(ts, req) ==
    IF StudentInvalid(req) THEN "InvalidStudent"
    ELSE IF FindTeacher(ts, req.teacher_id) = None THEN "InvalidTeacher"
    ELSE IF FindSchool(req.driving_school_id) = None THEN "InvalidSchool"
    ELSE IF GenderDiffers(ts, req) THEN "GenderMismatch"
    ELSE "ok"

\* all checks of create_course in the order of the code; "ok" when all pass
CreateCourseError(ts, cs, req) ==
    IF ReferenceError(ts, req) # "ok" THEN ReferenceError(ts, req)
    ELSE IF PrerequisiteMissing(cs, req) THEN "PrerequisiteNotMet"
    ELSE IF HasNotFailed(cs, req.student_id, req.type) THEN "DuplicateEnrollment"
    ELSE "ok"

\* new_course = Course(**course.dict())
NewCourse(req) ==
    [type |-> req.type, student_id |-> req.student_id, teacher_id |-> req.teacher_id,
     driving_school_id |-> req.driving_school_id, status |-> req.status]

\* course_price by course type from the school document
CoursePrice(school, type) ==
    IF type = "code" THEN school.price_code
    ELSE IF type = "parking" THEN school.price_parking
    ELSE IF type = "road" THEN school.price_road
    ELSE 0

\* mutant: the payment of a new course is created completed
NewPayment_Completed(course_id, amount) ==
    [course_id |-> course_id, amount |-> amount, status |-> "completed"]

\* payment = Payment(course_id=new_course.id, amount=course_price, status=PENDING)
NewPayment(course_id, amount) ==
    [course_id |-> course_id, amount |-> amount, status |-> "pending"]

Response(op, err) == [op |-> op, err |-> err]

\* mutant: the documents are inserted before the duplicate check raises
create_course_InsertFirst(req) ==
    LET err == CreateCourseError(teachers, courses, req)
        id == Len(courses) + 1
    IN  /\ IF err \notin {"ok", "DuplicateEnrollment"}
           THEN UNCHANGED <<courses, payments>>
           ELSE /\ courses' = Append(courses, NewCourse(req))
                /\ payments' = Append(payments,
                       NewPayment(id, CoursePrice(FindSchool(req.driving_school_id), req.type)))
        /\ resp' = Response("create_course", err)
        /\ UNCHANGED <<school_flags, teachers, exams, schedules, procs>>

\* the whole handler, run without interleaving
create_course(req) ==
    LET err == CreateCourseError(teachers, courses, req)
        id == Len(courses) + 1
    IN  /\ IF err # "ok"
           THEN UNCHANGED <<courses, payments>>
           ELSE /\ courses' = Append(courses, NewCourse(req))
                /\ payments' = Append(payments,
                       NewPayment(id, CoursePrice(FindSchool(req.driving_school_id), req.type)))
        /\ resp' = Response("create_course", err)
        /\ UNCHANGED <<school_flags, teachers, exams, schedules, procs>>

----------------------------------------------------------------------------
(* create_course as the event loop runs it: every await on the Record      *)
(* Store is a point where another request may run.  The lookups of         *)
(* student, teacher, school and teacher user read collections that no      *)
(* request of the model writes, so they form one step.                     *)

InFlight == {w \in DOMAIN procs : procs[w].pc # "idle"}

Finish(w, err) ==
    /\ procs' = [procs EXCEPT ![w] = [pc |-> "idle"]]
    /\ resp' = Response("create_course", err)

Goto(w, pc) ==
    /\ procs' = [procs EXCEPT ![w].pc = pc]
    /\ UNCHANGED resp

\* lines 417-447
cc_begin(w, req) ==
    /\ procs[w].pc = "idle"
    /\ IF ReferenceError(teachers, req) # "ok"
       THEN Finish(w, ReferenceError(teachers, req))
       ELSE /\ procs' = [procs EXCEPT ![w] =
                    [pc |-> IF req.type = "code" THEN "dup" ELSE "prereq", req |-> req]]
            /\ UNCHANGED resp
    /\ UNCHANGED <<school_flags, teachers, courses, payments, exams, schedules>>

\* the find_one for a completed course of the preceding type
cc_prereq(w) ==
    /\ procs[w].pc = "prereq"
    /\ IF PrerequisiteMissing(courses, procs[w].req)
       THEN Finish(w, "PrerequisiteNotMet")
       ELSE Goto(w, "dup")
    /\ UNCHANGED <<school_flags, teachers, courses, payments, exams, schedules>>

\* the find_one for a course of the requested type that has not failed
cc_dup(w) ==
    /\ procs[w].pc = "dup"
    /\ IF HasNotFailed(courses, procs[w].req.student_id, procs[w].req.type)
       THEN Finish(w, "DuplicateEnrollment")
       ELSE Goto(w, "insert_course")
    /\ UNCHANGED <<school_flags, teachers, courses, payments, exams, schedules>>

\* await db.courses.insert_one(new_course.dict())
cc_insert_course(w) ==
    /\ procs[w].pc = "insert_course"
    /\ courses' = Append(courses, NewCourse(procs[w].req))
    /\ procs' = [procs EXCEPT ![w] =
           [pc |-> "insert_payment", req |-> procs[w].req, course_id |-> Len(courses) + 1]]
    /\ UNCHANGED <<school_flags, teachers, payments, exams, schedules, resp>>

\* await db.payments.insert_one(payment.dict())
cc_insert_payment(w) ==
    /\ procs[w].pc = "insert_payment"
    /\ payments' = Append(payments,
           NewPayment(procs[w].course_id,
               CoursePrice(FindSchool(procs[w].req.driving_school_id), procs[w].req.type)))
    /\ Finish(w, "ok")
    /\ UNCHANGED <<school_flags, teachers, courses, exams, schedules>>

\* an insert_one raises (the store is unreachable): nothing catches it, the
\* request ends with a server error and what was written before stays
cc_insert_raises(w) ==
    /\ procs[w].pc \in {"insert_course", "insert_payment"}
    /\ Finish(w, "StoreError")
    /\ UNCHANGED <<school_flags, teachers, courses, payments, exams, schedules>>

----------------------------------------------------------------------------
(* create_exam, update_exam, update_payment *)

StaffRoles == {"manager", "teacher", "admin"}

\* mutant: any teacher may act on any course
NotOwnCourse_AnyTeacher(ts, caller, course) ==
    /\ caller.role = "teacher"
    /\ FindTeacherByUser(ts, caller.id) = None

\* a teacher acting on a course that is not theirs
NotOwnCourse(ts, caller, course) ==
    /\ caller.role = "teacher"
    /\ LET teacher == FindTeacherByUser(ts, caller.id)
       IN  teacher = None \/ teacher.id # course.teacher_id

CreateExamError(ts, cs, caller, course_id) ==
    IF caller.role \notin StaffRoles THEN "Forbidden"
    ELSE IF course_id \notin 1..Len(cs) THEN "InvalidCourse"
    ELSE IF NotOwnCourse(ts, caller, cs[course_id]) THEN "Forbidden"
    ELSE "ok"

\* new_exam = Exam(**exam.dict()): the status is the request's
create_exam(caller, course_id, status) ==
    LET err == CreateExamError(teachers, courses, caller, course_id)
    IN  /\ IF err # "ok"
           THEN UNCHANGED exams
           ELSE exams' = Append(exams, [course_id |-> course_id, status |-> status])
        /\ resp' = Response("create_exam", err)
        /\ UNCHANGED <<school_flags, teachers, courses, payments, schedules, procs>>

UpdateExamError(ts, cs, es, caller, exam_id) ==
    IF caller.role \notin StaffRoles THEN "Forbidden"
    ELSE IF exam_id \notin 1..Len(es) THEN "NotFound"
    ELSE IF es[exam_id].course_id \notin 1..Len(cs) THEN "NotFound"
    ELSE IF NotOwnCourse(ts, caller, cs[es[exam_id].course_id]) THEN "Forbidden"
    ELSE "ok"

\* mutant: passed completes only a course that is in progress
ExamCourseStatus_FromInProgress(status, old) ==
    IF status = "passed" /\ old = "in_progress" THEN "completed"
    ELSE IF status = "failed" THEN "failed"
    ELSE old

\* mutant: recording failed on a failed course reopens the course
ExamCourseStatus_Reopen(status, old) ==
    IF status = "passed" THEN "completed"
    ELSE IF status = "failed" THEN IF old = "failed" THEN "in_progress" ELSE "failed"
    ELSE old

\* mutant: a failed exam sends the course back to not_started
ExamCourseStatus_FailedRestarts(status, old) ==
    IF status = "passed" THEN "completed"
    ELSE IF status = "failed" THEN "not_started"
    ELSE old

\* the course status update_exam writes for an exam status
ExamCourseStatus(status, old) ==
    IF status = "passed" THEN "completed"
    ELSE IF status = "failed" THEN "failed"
    ELSE old

update_exam(caller, exam_id, status) ==
    LET err == UpdateExamError(teachers, courses, exams, caller, exam_id)
    IN  /\ IF err # "ok"
           THEN UNCHANGED <<exams, courses>>
           ELSE LET cid == exams[exam_id].course_id
                IN  /\ exams' = [exams EXCEPT ![exam_id].status = status]
                    /\ courses' = [courses EXCEPT
                           ![cid].status = ExamCourseStatus(status, courses[cid].status)]
        /\ resp' = Response("update_exam", err)
        /\ UNCHANGED <<school_flags, teachers, payments, schedules, procs>>

UpdatePaymentError(cs, ps, caller, payment_id) ==
    IF payment_id \notin 1..Len(ps) THEN "NotFound"
    ELSE IF ps[payment_id].course_id \notin 1..Len(cs) THEN "NotFound"
    ELSE IF /\ caller.role # "admin"
            /\ caller.role # "manager"
            /\ caller.id # cs[ps[payment_id].course_id].student_id THEN "Forbidden"
    ELSE "ok"

\* mutant: completed puts the course in progress whatever its status
PaymentCourseStatus_Always(status, old) ==
    IF status = "completed" THEN "in_progress" ELSE old

\* mutant: a refund takes a course in progress back to not_started
PaymentCourseStatus_Rollback(status, old) ==
    IF status = "completed" /\ old = "not_started" THEN "in_progress"
    ELSE IF status = "refunded" /\ old = "in_progress" THEN "not_started"
    ELSE old

\* the course status update_payment writes for a payment status
PaymentCourseStatus(status, old) ==
    IF status = "completed" /\ old = "not_started" THEN "in_progress" ELSE old

update_payment(caller, payment_id, status) ==
    LET err == UpdatePaymentError(courses, payments, caller, payment_id)
    IN  /\ IF err # "ok"
           THEN UNCHANGED <<payments, courses>>
           ELSE LET cid == payments[payment_id].course_id
                IN  /\ payments' = [payments EXCEPT ![payment_id].status = status]
                    /\ courses' = [courses EXCEPT
                           ![cid].status = PaymentCourseStatus(status, courses[cid].status)]
        /\ resp' = Response("update_payment", err)
        /\ UNCHANGED <<school_flags, teachers, exams, schedules, procs>>

----------------------------------------------------------------------------
(* create_schedule *)

MinutesPerHour == 60
MinutesPerDay == 1440
CodeCapacity == 20
DailyLimit == 3

\* the request body (ScheduleCreate)
ScheduleCreate(course_id, date, duration_minutes) ==
    [course_id |-> course_id, date |-> date, duration_minutes |-> duration_minutes]

\* schedule.date.replace(minute=0, second=0, microsecond=0)
HourStart(date) == date - (date % MinutesPerHour)

\* schedule_date.replace(hour=0, minute=0, second=0, microsecond=0)
DayStart(date) == date - (date % MinutesPerDay)

\* the ids of the courses taught by a teacher
TeacherCourseIds(cs, teacher_id) == {i \in 1..Len(cs) : cs[i].teacher_id = teacher_id}

\* len(await cursor.to_list(1000)): the number of documents of the
\* collection among the distinct documents hit
CountIn(bag, hit) == BagCardinality([x \in hit |-> bag[x]])

\* mutant: a schedule that ends at schedule_date counts as existing
ExistingSchedules_EndInclusive(sch, ids, schedule_date, end_date) ==
    CountIn(sch, {x \in BagToSet(sch) :
        /\ x.date + x.duration_minutes >= schedule_date
        /\ x.date < end_date
        /\ x.course_id \in ids})

\* existing_schedules: date in [schedule_date, end_date), course_id in ids
ExistingSchedules(sch, ids, schedule_date, end_date) ==
    CountIn(sch, {x \in BagToSet(sch) :
        /\ x.date >= schedule_date
        /\ x.date < end_date
        /\ x.course_id \in ids})

\* day_course_types[type]: the teacher's schedules of the day whose course
\* has the type
DayCourseTypes(cs, sch, ids, day_start, type) ==
    CountIn(sch, {x \in BagToSet(sch) :
        /\ x.date >= day_start
        /\ x.date < day_start + MinutesPerDay
        /\ x.course_id \in ids
        /\ x.course_id \in 1..Len(cs)
        /\ cs[x.course_id].type = type})

\* mutant: the daily limit is compared with > instead of >=
LimitError_OffByOne(cs, sch, req) ==
    LET course == cs[req.course_id]
        schedule_date == HourStart(req.date)
        end_date == schedule_date + req.duration_minutes
        ids == TeacherCourseIds(cs, course.teacher_id)
        existing == ExistingSchedules(sch, ids, schedule_date, end_date)
    IN  IF ids = {} THEN "ok"
        ELSE IF course.type = "code"
        THEN IF existing >= CodeCapacity THEN "CapacityExceeded" ELSE "ok"
        ELSE IF existing > 0 THEN "SlotTaken"
        ELSE IF DayCourseTypes(cs, sch, ids, DayStart(schedule_date), course.type)
                    > DailyLimit
        THEN "DailyCapacityExceeded"
        ELSE "ok"

\* the scheduling limits (lines 620-689) for a course that exists
LimitError(cs, sch, req) ==
    LET course == cs[req.course_id]
        schedule_date == HourStart(req.date)
        end_date == schedule_date + req.duration_minutes
        ids == TeacherCourseIds(cs, course.teacher_id)
        existing == ExistingSchedules(sch, ids, schedule_date, end_date)
    IN  IF ids = {} THEN "ok"
        ELSE IF course.type = "code"
        THEN IF existing >= CodeCapacity THEN "CapacityExceeded" ELSE "ok"
        ELSE IF existing > 0 THEN "SlotTaken"
        ELSE IF DayCourseTypes(cs, sch, ids, DayStart(schedule_date), course.type)
                    >= DailyLimit
        THEN "DailyCapacityExceeded"
        ELSE "ok"

CreateScheduleError(ts, cs, sch, caller, req) ==
    IF caller.role \notin StaffRoles THEN "Forbidden"
    ELSE IF req.course_id \notin 1..Len(cs) THEN "InvalidCourse"
    ELSE IF FindTeacher(ts, cs[req.course_id].teacher_id) = None THEN "TeacherNotFound"
    ELSE IF NotOwnCourse(ts, caller, cs[req.course_id]) THEN "Forbidden"
    ELSE LimitError(cs, sch, req)

\* new_schedule = Schedule(**schedule.dict()): the date as requested
NewSchedule(req) ==
    [course_id |-> req.course_id, date |-> req.date,
     duration_minutes |-> req.duration_minutes]

\* mutant: a booking also puts the course in progress
create_schedule_StartsCourse(caller, req) ==
    LET err == CreateScheduleError(teachers, courses, schedules, caller, req)
    IN  /\ IF err # "ok"
           THEN UNCHANGED <<schedules, courses>>
           ELSE /\ schedules' = schedules (+) SetToBag({NewSchedule(req)})
                /\ courses' = [courses EXCEPT ![req.course_id].status = "in_progress"]
        /\ resp' = Response("create_schedule", err)
        /\ UNCHANGED <<school_flags, teachers, payments, exams, procs>>

create_schedule(caller, req) ==
    LET err == CreateScheduleError(teachers, courses, schedules, caller, req)
    IN  /\ IF err # "ok"
           THEN UNCHANGED schedules
           ELSE schedules' = schedules (+) SetToBag({NewSchedule(req)})
        /\ resp' = Response("create_schedule", err)
        /\ UNCHANGED <<school_flags, teachers, courses, payments, exams, procs>>

----------------------------------------------------------------------------
(* create_schedule as the event loop runs it.  The lookups of the course,  *)
(* the teacher, the caller's teacher record and the teacher's courses read *)
(* collections that no request running beside it writes, so they form one  *)
(* step; each find on db.schedules and the insert_one are steps of their   *)
(* own.                                                                    *)

\* the checks that precede the scheduling limits (lines 588-618)
ScheduleAccessError(ts, cs, caller, req) ==
    IF caller.role \notin StaffRoles THEN "Forbidden"
    ELSE IF req.course_id \notin 1..Len(cs) THEN "InvalidCourse"
    ELSE IF FindTeacher(ts, cs[req.course_id].teacher_id) = None THEN "TeacherNotFound"
    ELSE IF NotOwnCourse(ts, caller, cs[req.course_id]) THEN "Forbidden"
    ELSE "ok"

FinishSchedule(w, err) ==
    /\ procs' = [procs EXCEPT ![w] = [pc |-> "idle"]]
    /\ resp' = Response("create_schedule", err)

\* lines 588-637
cs_begin(w, caller, req) ==
    /\ procs[w].pc = "idle"
    /\ IF ScheduleAccessError(teachers, courses, caller, req) # "ok"
       THEN FinishSchedule(w, ScheduleAccessError(teachers, courses, caller, req))
       ELSE /\ procs' = [procs EXCEPT ![w] =
                    [pc |-> IF TeacherCourseIds(courses, courses[req.course_id].teacher_id) = {}
                            THEN "insert_schedule" ELSE "existing",
                     req |-> req]]
            /\ UNCHANGED resp
    /\ UNCHANGED <<school_flags, teachers, courses, payments, exams, schedules>>

\* existing_schedules = await db.schedules.find(...).to_list(1000), and the
\* branch on the course type (lines 639-655)
cs_existing(w) ==
    /\ procs[w].pc = "existing"
    /\ LET req == procs[w].req
           course == courses[req.course_id]
           schedule_date == HourStart(req.date)
           existing == ExistingSchedules(schedules,
                           TeacherCourseIds(courses, course.teacher_id),
                           schedule_date, schedule_date + req.duration_minutes)
       IN  IF course.type = "code"
           THEN IF existing >= CodeCapacity
                THEN FinishSchedule(w, "CapacityExceeded")
                ELSE Goto(w, "insert_schedule")
           ELSE IF existing > 0
                THEN FinishSchedule(w, "SlotTaken")
                ELSE Goto(w, "day")
    /\ UNCHANGED <<school_flags, teachers, courses, payments, exams, schedules>>

\* day_schedules = await db.schedules.find(...).to_list(1000), the count by
\* course type and the daily limit (lines 657-689)
cs_day(w) ==
    /\ procs[w].pc = "day"
    /\ LET req == procs[w].req
           course == courses[req.course_id]
           booked == DayCourseTypes(courses, schedules,
                         TeacherCourseIds(courses, course.teacher_id),
                         DayStart(HourStart(req.date)), course.type)
       IN  IF booked >= DailyLimit
           THEN FinishSchedule(w, "DailyCapacityExceeded")
           ELSE Goto(w, "insert_schedule")
    /\ UNCHANGED <<school_flags, teachers, courses, payments, exams, schedules>>

\* await db.schedules.insert_one(new_schedule.dict())
cs_insert(w) ==
    /\ procs[w].pc = "insert_schedule"
    /\ schedules' = schedules (+) SetToBag({NewSchedule(procs[w].req)})
    /\ FinishSchedule(w, "ok")
    /\ UNCHANGED <<school_flags, teachers, courses, payments, exams>>

----------------------------------------------------------------------------
(* update_exam and update_payment as the event loop runs them.  The        *)
(* lookups that precede the writes read what no request running beside     *)
(* them changes (which documents exist, whose they are), except the status *)
(* of the course, which update_payment reads with the course and keeps.    *)

FinishOp(w, op, err) ==
    /\ procs' = [procs EXCEPT ![w] = [pc |-> "idle"]]
    /\ resp' = Response(op, err)

\* lines 798-828
ue_begin(w, caller, exam_id, status) ==
    /\ procs[w].pc = "idle"
    /\ LET err == UpdateExamError(teachers, courses, exams, caller, exam_id)
       IN  IF err # "ok"
           THEN FinishOp(w, "update_exam", err)
           ELSE /\ procs' = [procs EXCEPT ![w] =
                        [pc |-> "ue_write_exam", exam_id |-> exam_id, status |-> status,
                         course_id |-> exams[exam_id].course_id]]
                /\ UNCHANGED resp
    /\ UNCHANGED <<school_flags, teachers, courses, payments, exams, schedules>>

\* await db.exams.update_one({"id": exam_id}, {"$set": update_data})
ue_write_exam(w) ==
    /\ procs[w].pc = "ue_write_exam"
    /\ exams' = [exams EXCEPT ![procs[w].exam_id].status = procs[w].status]
    /\ Goto(w, IF procs[w].status \in {"passed", "failed"}
               THEN "ue_write_course" ELSE "ue_return")
    /\ UNCHANGED <<school_flags, teachers, courses, payments, schedules>>

\* await db.courses.update_one({"id": course["id"]}, {"$set": {"status": ...}})
ue_write_course(w) ==
    /\ procs[w].pc = "ue_write_course"
    /\ courses' = [courses EXCEPT ![procs[w].course_id].status =
           ExamCourseStatus(procs[w].status, courses[procs[w].course_id].status)]
    /\ Goto(w, "ue_return")
    /\ UNCHANGED <<school_flags, teachers, payments, exams, schedules>>

\* updated_exam = await db.exams.find_one({"id": exam_id}); return
ue_return(w) ==
    /\ procs[w].pc = "ue_return"
    /\ FinishOp(w, "update_exam", "ok")
    /\ UNCHANGED <<school_flags, teachers, courses, payments, exams, schedules>>

\* lines 934-958: course is the document as read here
up_begin(w, caller, payment_id, status) ==
    /\ procs[w].pc = "idle"
    /\ LET err == UpdatePaymentError(courses, payments, caller, payment_id)
       IN  IF err # "ok"
           THEN FinishOp(w, "update_payment", err)
           ELSE /\ procs' = [procs EXCEPT ![w] =
                        [pc |-> "up_write_payment", payment_id |-> payment_id,
                         status |-> status,
                         course_id |-> payments[payment_id].course_id,
                         course_status |-> courses[payments[payment_id].course_id].status]]
                /\ UNCHANGED resp
    /\ UNCHANGED <<school_flags, teachers, courses, payments, exams, schedules>>

\* await db.payments.update_one({"id": payment_id}, {"$set": {"status": status}})
up_write_payment(w) ==
    /\ procs[w].pc = "up_write_payment"
    /\ payments' = [payments EXCEPT ![procs[w].payment_id].status = procs[w].status]
    /\ Goto(w, IF procs[w].status = "completed" /\ procs[w].course_status = "not_started"
               THEN "up_write_course" ELSE "up_return")
    /\ UNCHANGED <<school_flags, teachers, courses, exams, schedules>>

\* await db.courses.update_one({"id": course["id"]}, {"$set": {"status": IN_PROGRESS}})
up_write_course(w) ==
    /\ procs[w].pc = "up_write_course"
    /\ courses' = [courses EXCEPT ![procs[w].course_id].status = "in_progress"]
    /\ Goto(w, "up_return")
    /\ UNCHANGED <<school_flags, teachers, payments, exams, schedules>>

\* updated_payment = await db.payments.find_one({"id": payment_id}); return
up_return(w) ==
    /\ procs[w].pc = "up_return"
    /\ FinishOp(w, "update_payment", "ok")
    /\ UNCHANGED <<school_flags, teachers, courses, payments, exams, schedules>>

----------------------------------------------------------------------------
(* The sequential specification: the handlers run one request at a time,   *)
(* on every kind of input: ids that resolve and ids that do not, every     *)
(* caller role, every status a request can carry.                          *)

Workers == {"w1", "w2"}
Idle == [pc |-> "idle"]

StudentIds == {"s1", "s2", "tu1", "nobody"}
TeacherIds == {"t1", "t2", "nobody"}
SchoolIds == {"sch1", "nowhere"}

\* every request whose ids resolve, and for every combination of ids that
\* resolve and ids that do not, a request for a code course
CourseRequests ==
    {CourseCreate(s, t, "sch1", ty, st) :
        s \in {"s1", "s2"}, t \in {"t1", "t2"}, ty \in CourseType, st \in CourseStatus}
    \cup
    {CourseCreate(s, t, d, "code", "not_started") :
        s \in StudentIds, t \in TeacherIds, d \in SchoolIds}

Callers == {u \in Users : u.id \in {"s1", "tu1", "tu2", "m1"}}

PaymentInputs == {"pending", "completed", "refunded"}

\* a request that would add a document is taken only below the bound
CourseRoom(req, max) ==
    CreateCourseError(teachers, courses, req) = "ok" => Len(courses) < max

ExamRoom(caller, course_id, max) ==
    CreateExamError(teachers, courses, caller, course_id) = "ok" => Len(exams) < max

Init ==
    /\ teachers = InitTeachers
    /\ school_flags = FlagsOf(InitTeachers)
    /\ courses = <<>>
    /\ payments = <<>>
    /\ exams = <<>>
    /\ schedules = EmptyBag
    /\ procs = [w \in Workers |-> Idle]
    /\ resp = Response("none", "ok")

Next ==
    \/ \E req \in CourseRequests :
           CourseRoom(req, MaxCourses) /\ create_course(req)
    \/ \E caller \in Callers, c \in 1..MaxCourses, st \in ExamStatus :
           ExamRoom(caller, c, MaxExams) /\ create_exam(caller, c, st)
    \/ \E caller \in Callers, e \in 1..MaxExams, st \in ExamStatus :
           update_exam(caller, e, st)
    \/ \E caller \in Callers, p \in 1..MaxCourses, st \in PaymentInputs :
           update_payment(caller, p, st)

Spec == Init /\ [][Next]_vars

----------------------------------------------------------------------------
(* The progression specification: requests whose ids resolve, issued by    *)
(* the manager, far enough to take a student through code, parking and     *)
(* road.                                                                   *)

MaxChainCourses == 3
MaxChainExams == 2

ChainRequests ==
    {CourseCreate(s, t, "sch1", ty, st) :
        s \in {"s1", "s2"}, t \in {"t1", "t2"}, ty \in CourseType,
        st \in {"not_started", "completed"}}

Manager == FindUser("m1")

NextChain ==
    \/ \E req \in ChainRequests :
           CourseRoom(req, MaxChainCourses) /\ create_course(req)
    \/ \E c \in 1..MaxChainCourses :
           ExamRoom(Manager, c, MaxChainExams) /\ create_exam(Manager, c, "scheduled")
    \/ \E e \in 1..MaxChainExams, st \in {"passed", "failed"} :
           update_exam(Manager, e, st)
    \/ \E p \in 1..MaxChainCourses : update_payment(Manager, p, "completed")

SpecChain == Init /\ [][NextChain]_vars

----------------------------------------------------------------------------
(* Properties of enrollment *)

\* the courses of a student and type whose status is not failed
LiveCourses(s, ty) ==
    {i \in 1..Len(courses) :
        /\ courses[i].student_id = s
        /\ courses[i].type = ty
        /\ courses[i].status # "failed"}

CompletedCourses(s, ty) ==
    {i \in 1..Len(courses) :
        /\ courses[i].student_id = s
        /\ courses[i].type = ty
        /\ courses[i].status = "completed"}

Students == {u.id : u \in {x \in Users : x.role = "student"}}

\* the step added one Course and answered without error
Enrolled ==
    /\ resp'.op = "create_course" /\ resp'.err = "ok"
    /\ Len(courses') = Len(courses) + 1

\* the step answered err and wrote neither a Course nor a Payment
RejectedWith(err) ==
    /\ resp'.op = "create_course" /\ resp'.err = err
    /\ courses' = courses /\ payments' = payments

\* the step is a create_course answering err
Answered(err) == resp'.op = "create_course" /\ resp'.err = err

\* what create_course answers to req in the current state
Verdict(req) == CreateCourseError(teachers, courses, req)

\* student, teacher and school of the request exist
RefsExist(req) ==
    /\ \E u \in Users : u.id = req.student_id /\ u.role = "student"
    /\ \E t \in teachers : t.id = req.teacher_id
    /\ \E d \in DrivingSchools : d.id = req.driving_school_id

\* the gender of the user the request's teacher is linked to
TeacherUserGender(req) ==
    LET t == CHOOSE t \in teachers : t.id = req.teacher_id
    IN  (CHOOSE u \in Users : u.id = t.user_id).gender

StudentGender(req) == (CHOOSE u \in Users : u.id = req.student_id).gender

\* C1: for every student and course type at most one Course of that student
\* and type has a status other than failed.
C1_OneLiveCoursePerType ==
    \A s \in Students, ty \in CourseType : Cardinality(LiveCourses(s, ty)) <= 1

\* C2: for a request whose references exist, whose genders match and whose
\* student has no non-failed course of the requested type: a parking
\* enrollment succeeds iff the student has a completed code course, a road
\* enrollment succeeds iff the student has a completed parking course, and
\* otherwise the request is rejected with PrerequisiteNotMet.  The handler
\* answers Verdict(req) in the current state; an answer ok comes with one new
\* Course, an answer PrerequisiteNotMet with none.
C2_Case(req, wanted, needed) ==
    req.type = wanted =>
        Verdict(req) = IF CompletedCourses(req.student_id, needed) # {}
                       THEN "ok" ELSE "PrerequisiteNotMet"

C2_PrerequisiteIff ==
    /\ [](\A req \in ChainRequests :
            ( /\ RefsExist(req)
              /\ TeacherUserGender(req) = StudentGender(req)
              /\ LiveCourses(req.student_id, req.type) = {} )
            => /\ C2_Case(req, "parking", "code")
               /\ C2_Case(req, "road", "parking"))
    /\ [][/\ Answered("ok") => Enrolled
          /\ Answered("PrerequisiteNotMet") => RejectedWith("PrerequisiteNotMet")]_vars

\* a road enrollment has just succeeded
C2_Witness ==
    /\ resp = Response("create_course", "ok")
    /\ Len(courses) = 3
    /\ courses[3].type = "road"
    /\ CompletedCourses(courses[3].student_id, "parking") # {}

\* C3 as stated: whenever the teacher's gender differs from the student's,
\* create_course fails with GenderMismatch and creates no Course, whether or
\* not the school exists.
C3_GenderMismatchRegardless ==
    [][\A req \in CourseRequests :
          ( /\ resp'.op = "create_course"
            /\ \E u \in Users : u.id = req.student_id /\ u.role = "student"
            /\ \E t \in teachers : t.id = req.teacher_id
            /\ TeacherUserGender(req) # StudentGender(req)
            /\ create_course(req) )
          => RejectedWith("GenderMismatch")]_vars

\* C3 amended: whenever student, teacher and school exist and the gender of
\* the user the teacher is linked to differs from the student's, create_course
\* fails with GenderMismatch and creates no Course, whatever the course type,
\* the requested status, the prerequisites and the existing enrollments.
C3_GenderMismatchWhenRefsExist ==
    /\ [](\A req \in CourseRequests :
            (RefsExist(req) /\ TeacherUserGender(req) # StudentGender(req))
            => Verdict(req) = "GenderMismatch")
    /\ [][Answered("GenderMismatch") => RejectedWith("GenderMismatch")]_vars

\* a request was rejected for its genders while the student has a course
C3_Witness ==
    /\ resp = Response("create_course", "GenderMismatch")
    /\ LiveCourses("s1", "code") # {}

\* C4: a request for type T by a student who has a course of type T that is
\* not_started, in_progress or completed is rejected with DuplicateEnrollment
\* (for parking and road: provided the prerequisite is met).
C4_PrerequisiteMet(req) ==
    /\ req.type = "parking" => CompletedCourses(req.student_id, "code") # {}
    /\ req.type = "road" => CompletedCourses(req.student_id, "parking") # {}

C4_DuplicateRejected ==
    /\ [](\A req \in ChainRequests :
            ( /\ RefsExist(req)
              /\ TeacherUserGender(req) = StudentGender(req)
              /\ C4_PrerequisiteMet(req)
              /\ \E i \in 1..Len(courses) :
                    /\ courses[i].student_id = req.student_id
                    /\ courses[i].type = req.type
                    /\ courses[i].status \in {"not_started", "in_progress", "completed"} )
            => Verdict(req) = "DuplicateEnrollment")
    /\ [][Answered("DuplicateEnrollment") => RejectedWith("DuplicateEnrollment")]_vars

\* a second road enrollment was rejected while the first is in progress
C4_Witness ==
    /\ resp = Response("create_course", "DuplicateEnrollment")
    /\ \E i \in 1..Len(courses) :
          courses[i].type = "road" /\ courses[i].status = "in_progress"

\* C5: every Course a successful create_course creates has status
\* not_started when it is created, whatever the request holds.
C5_CreatedNotStarted ==
    [][Enrolled => courses'[Len(courses')].status = "not_started"]_vars

\* C7: a rejected create_course leaves the Course and Payment documents as
\* they were.
C7_RejectedWritesNothing ==
    [][(resp'.op = "create_course" /\ resp'.err # "ok")
          => (courses' = courses /\ payments' = payments)]_vars

\* a duplicate enrollment has just been rejected
C7_Witness ==
    /\ resp = Response("create_course", "DuplicateEnrollment")
    /\ Len(courses) >= 1 /\ Len(payments) = Len(courses)

----------------------------------------------------------------------------
(* Properties of outcome propagation *)

\* C14: a successful update_exam with status passed leaves the exam's course
\* completed, with status failed leaves it failed, whatever the course's
\* status was before, and with status scheduled leaves its status as it was.
C14_ExamOutcome ==
    [][\A caller \in Callers, e \in 1..MaxExams, st \in ExamStatus :
          ( /\ update_exam(caller, e, st)
            /\ resp'.err = "ok" )
          => LET cid == exams[e].course_id
             IN  /\ st = "passed" => courses'[cid].status = "completed"
                 /\ st = "failed" => courses'[cid].status = "failed"
                 /\ st = "scheduled" => courses'[cid].status = courses[cid].status
                 /\ exams'[e].status = st]_vars

\* an exam was recorded passed and its course is completed, the payment of
\* the course still pending (the course never was in progress)
C14_Witness ==
    /\ resp = Response("update_exam", "ok")
    /\ Len(exams) = 1 /\ exams[1].status = "passed"
    /\ courses[exams[1].course_id].status = "completed"
    /\ payments[exams[1].course_id].status = "pending"

\* C15: a successful update_payment with status completed puts the owning
\* course in_progress when it is not_started and leaves the course's status
\* as it was when it is in_progress, completed or failed.
C15_PaymentOutcome ==
    [][\A caller \in Callers, p \in 1..MaxCourses :
          ( /\ update_payment(caller, p, "completed")
            /\ resp'.err = "ok" )
          => LET cid == payments[p].course_id
             IN  /\ courses[cid].status = "not_started"
                        => courses'[cid].status = "in_progress"
                 /\ courses[cid].status \in {"in_progress", "completed", "failed"}
                        => courses'[cid].status = courses[cid].status
                 /\ payments'[p].status = "completed"]_vars

\* the payment of a completed course was recorded completed
C15_Witness ==
    /\ resp = Response("update_payment", "ok")
    /\ \E p \in 1..Len(payments) :
          /\ payments[p].status = "completed"
          /\ courses[payments[p].course_id].status = "completed"
          /\ \A e \in 1..Len(exams) : exams[e].course_id # payments[p].course_id

\* C16: completed is a terminal course status: a Course that has status
\* completed has status completed after every step.
C16_CompletedTerminal ==
    [][\A i \in 1..Len(courses) :
          courses[i].status = "completed" => courses'[i].status = "completed"]_vars

\* the status of Course i before the step; "none" when the step creates it
StatusBefore(i) == IF i \in 1..Len(courses) THEN courses[i].status ELSE "none"

\* the step is a successful update_payment after which a Payment of Course i
\* is completed
PaymentRecordedCompleted(i) ==
    /\ resp'.op = "update_payment" /\ resp'.err = "ok"
    /\ \E p \in 1..Len(payments') :
          payments'[p].course_id = i /\ payments'[p].status = "completed"

\* the step is a successful update_exam after which an Exam of Course i has
\* the status
ExamRecorded(i, status) ==
    /\ resp'.op = "update_exam" /\ resp'.err = "ok"
    /\ \E e \in 1..Len(exams') :
          exams'[e].course_id = i /\ exams'[e].status = status

\* C17: a Course comes to status in_progress only by a step that records a
\* Payment of the course completed while the course is not_started, to status
\* completed only by a step that records an Exam of the course passed, and to
\* status failed only by a step that records an Exam of the course failed.
C17_StatusOnlyByTrigger ==
    [][\A i \in 1..Len(courses') :
          courses'[i].status # StatusBefore(i) =>
              /\ courses'[i].status = "in_progress" =>
                     StatusBefore(i) = "not_started" /\ PaymentRecordedCompleted(i)
              /\ courses'[i].status = "completed" => ExamRecorded(i, "passed")
              /\ courses'[i].status = "failed" => ExamRecorded(i, "failed")]_vars

\* the courses of a student and type, whatever their status
CoursesOf(s, ty) ==
    {i \in 1..Len(courses) : courses[i].student_id = s /\ courses[i].type = ty}

\* C18: the progression of a student with a gender-matching teacher, step
\* by step.  A student without courses can enroll in code; an enrollment that
\* asks for not_started stores the Course not_started with a pending Payment
\* bound to it; recording that Payment completed puts the not_started Course
\* in_progress; an Exam can then be created for the Course and recording it
\* passed completes the Course; a student with a completed code course and no
\* parking course can enroll in parking, and with a completed parking course
\* and no road course in road.
C18_Progression ==
    /\ [](\A req \in ChainRequests :
            (RefsExist(req) /\ TeacherUserGender(req) = StudentGender(req)) =>
                /\ ( /\ req.type = "code"
                     /\ \A ty \in CourseType : CoursesOf(req.student_id, ty) = {} )
                      => Verdict(req) = "ok"
                /\ ( /\ req.type = "parking"
                     /\ CompletedCourses(req.student_id, "code") # {}
                     /\ CoursesOf(req.student_id, "parking") = {} )
                      => Verdict(req) = "ok"
                /\ ( /\ req.type = "road"
                     /\ CompletedCourses(req.student_id, "parking") # {}
                     /\ CoursesOf(req.student_id, "road") = {} )
                      => Verdict(req) = "ok")
    /\ [](\A c \in 1..Len(courses) :
            CreateExamError(teachers, courses, Manager, c) = "ok")
    /\ [][/\ Answered("ok") =>
                /\ Enrolled
                /\ payments' = Append(payments,
                       [course_id |-> Len(courses'),
                        amount |-> payments'[Len(payments')].amount,
                        status |-> "pending"])
          /\ \A req \in ChainRequests :
                (Enrolled /\ req.status = "not_started" /\ create_course(req))
                    => courses'[Len(courses')].status = "not_started"
          /\ \A p \in 1..MaxChainCourses :
                ( /\ resp'.op = "update_payment" /\ resp'.err = "ok"
                  /\ update_payment(Manager, p, "completed")
                  /\ courses[payments[p].course_id].status = "not_started" )
                    => courses'[payments[p].course_id].status = "in_progress"
          /\ \A e \in 1..MaxChainExams :
                ( /\ resp'.op = "update_exam" /\ resp'.err = "ok"
                  /\ update_exam(Manager, e, "passed") )
                    => courses'[exams[e].course_id].status = "completed"]_vars

\* student s1 went through code and parking, each paid and passed, and has
\* just enrolled in road
C18_Witness ==
    /\ resp = Response("create_course", "ok")
    /\ Len(courses) = 3
    /\ \A i \in 1..3 : courses[i].student_id = "s1" /\ courses[i].teacher_id = "t1"
    /\ courses[1].type = "code" /\ courses[1].status = "completed"
    /\ courses[2].type = "parking" /\ courses[2].status = "completed"
    /\ courses[3].type = "road" /\ courses[3].status = "not_started"
    /\ payments[1].status = "completed" /\ payments[2].status = "completed"
    /\ payments[3].status = "pending"
    /\ Len(exams) = 2
    /\ exams[1].course_id = 1 /\ exams[1].status = "passed"
    /\ exams[2].course_id = 2 /\ exams[2].status = "passed"

\* C19: when the student has courses of the requested type and all of them
\* are failed, the references exist, the genders match and the prerequisite
\* of the type is met, create_course succeeds; it adds a new Course and
\* leaves every Course that existed as it was.
C19_ReenrollAfterFailure ==
    /\ [](\A req \in ChainRequests :
            ( /\ RefsExist(req)
              /\ TeacherUserGender(req) = StudentGender(req)
              /\ C4_PrerequisiteMet(req)
              /\ CoursesOf(req.student_id, req.type) # {}
              /\ LiveCourses(req.student_id, req.type) = {} )
            => Verdict(req) = "ok")
    /\ [][Answered("ok") =>
              /\ Enrolled
              /\ SubSeq(courses', 1, Len(courses)) = courses]_vars

\* a student enrolled in parking again after failing it
C19_Witness ==
    /\ resp = Response("create_course", "ok")
    /\ Len(courses) = 3
    /\ courses[2].type = "parking" /\ courses[2].status = "failed"
    /\ courses[3].type = "parking" /\ courses[3].status = "not_started"
    /\ courses[3].student_id = courses[2].student_id

\* the exams and the courses as a successful update_exam of exam e with a
\* status leaves them, from exams es and courses cs
ExamsRecorded(es, e, status) == [es EXCEPT ![e].status = status]

CoursesRecorded(cs, es, e, status) ==
    [cs EXCEPT ![es[e].course_id].status =
        ExamCourseStatus(status, cs[es[e].course_id].status)]

\* C21: update_exam applied twice in succession with the same exam and the
\* same status passed or failed answers without error both times and leaves
\* the Exams and Courses as one application leaves them.
C21_ExamOutcomeIdempotent ==
    /\ [](\A caller \in Callers, e \in 1..MaxExams, st \in {"passed", "failed"} :
            UpdateExamError(teachers, courses, exams, caller, e) = "ok" =>
                LET es1 == ExamsRecorded(exams, e, st)
                    cs1 == CoursesRecorded(courses, exams, e, st)
                IN  /\ UpdateExamError(teachers, cs1, es1, caller, e) = "ok"
                    /\ ExamsRecorded(es1, e, st) = es1
                    /\ CoursesRecorded(cs1, es1, e, st) = cs1)
    /\ [][\A caller \in Callers, e \in 1..MaxExams, st \in {"passed", "failed"} :
              ( /\ resp'.op = "update_exam" /\ resp'.err = "ok"
                /\ update_exam(caller, e, st) )
              => /\ exams' = ExamsRecorded(exams, e, st)
                 /\ courses' = CoursesRecorded(courses, exams, e, st)]_vars

\* an exam that is failed, of a course that is failed, was recorded
C21_Witness ==
    /\ resp = Response("update_exam", "ok")
    /\ Len(exams) = 1 /\ exams[1].status = "failed"
    /\ courses[exams[1].course_id].status = "failed"
    /\ Len(courses) = 2

----------------------------------------------------------------------------
(* The payment specification: enrollments in code courses and payment      *)
(* outcomes of every status, recorded by the student and by the manager.   *)

MaxPayCourses == 2

PayRequests ==
    {CourseCreate(s, "t1", "sch1", "code", st) :
        s \in {"s1", "tu1"}, st \in CourseStatus}
    \cup {CourseCreate("s2", "t2", "sch1", "code", "not_started")}

PayCallers == {u \in Users : u.id \in {"s1", "s2", "m1"}}

NextPay ==
    \/ \E req \in PayRequests :
           CourseRoom(req, MaxPayCourses) /\ create_course(req)
    \/ \E caller \in PayCallers, p \in 1..MaxPayCourses, st \in PaymentStatus :
           update_payment(caller, p, st)

SpecPay == Init /\ [][NextPay]_vars

\* C22: a successful update_payment with status pending, failed or refunded
\* leaves every Course as it was, also when the payment was completed and
\* its course is in_progress.
C22_OtherPaymentStatusKeepsCourses ==
    [][\A caller \in PayCallers, p \in 1..MaxPayCourses,
         st \in {"pending", "failed", "refunded"} :
          ( /\ resp'.op = "update_payment" /\ resp'.err = "ok"
            /\ update_payment(caller, p, st) )
          => /\ courses' = courses
             /\ payments'[p].status = st]_vars

\* a payment that put its course in progress was refunded and the course is
\* still in progress
C22_Witness ==
    /\ resp = Response("update_payment", "ok")
    /\ Len(courses) = 1 /\ courses[1].status = "in_progress"
    /\ payments[1].status = "refunded"

\* what create_course answers to req sent by a caller: the handler takes
\* current_user and never reads it
VerdictFor(caller, req) == CreateCourseError(teachers, courses, req)

\* C23: create_course is role-gated: for at least one caller role every
\* enrollment request that is valid otherwise is rejected with Forbidden.
C23_RoleGated ==
    \E role \in UserRole :
        \A caller \in {u \in Users : u.role = role}, req \in PayRequests :
            ( /\ RefsExist(req)
              /\ TeacherUserGender(req) = StudentGender(req)
              /\ C4_PrerequisiteMet(req)
              /\ LiveCourses(req.student_id, req.type) = {} )
            => VerdictFor(caller, req) = "Forbidden"

\* C24: create_course answers with the error of the first precondition that
\* fails in the order: the student exists with role student, the teacher
\* exists, the school exists, the genders match, the prerequisite of the type
\* is met, the student has no course of the type that is not failed; a
\* request answered with an error writes nothing.
C24_FirstFailingCheck ==
    /\ [](\A req \in CourseRequests :
            Verdict(req) =
                IF ~ \E u \in Users : u.id = req.student_id /\ u.role = "student"
                THEN "InvalidStudent"
                ELSE IF ~ \E t \in teachers : t.id = req.teacher_id
                THEN "InvalidTeacher"
                ELSE IF ~ \E d \in DrivingSchools : d.id = req.driving_school_id
                THEN "InvalidSchool"
                ELSE IF TeacherUserGender(req) # StudentGender(req)
                THEN "GenderMismatch"
                ELSE IF ~C4_PrerequisiteMet(req)
                THEN "PrerequisiteNotMet"
                ELSE IF LiveCourses(req.student_id, req.type) # {}
                THEN "DuplicateEnrollment"
                ELSE "ok")
    /\ [][\A err \in {"InvalidStudent", "InvalidTeacher", "InvalidSchool",
                       "GenderMismatch", "PrerequisiteNotMet", "DuplicateEnrollment"} :
              Answered(err) => RejectedWith(err)]_vars

\* a parking request was answered PrerequisiteNotMet while the student has a
\* parking course that is not failed and no completed code course: the
\* prerequisite and the duplicate check fail at once
C24_Witness ==
    /\ resp = Response("create_course", "PrerequisiteNotMet")
    /\ \E s \in Students :
          /\ LiveCourses(s, "parking") # {}
          /\ CompletedCourses(s, "code") = {}
          /\ CoursesOf(s, "code") # {}

----------------------------------------------------------------------------
(* The staffing specification: managers, admins and others create Teacher  *)
(* records for users of every role, with every gender, and students enroll *)
(* with the teachers created.                                              *)

MaxTeachers == 2
MaxStaffCourses == 1

TeacherRequests ==
    {TeacherCreate(u, d, g) :
        u \in {"tu1", "tu2", "s1", "nobody"}, d \in SchoolIds, g \in Gender}

TeacherCallers == {u \in Users : u.id \in {"m1", "a1", "tu1"}}

StaffCourseRequests ==
    {CourseCreate(s, t, "sch1", "code", "not_started") :
        s \in {"s1", "s2"}, t \in {"t1", "t2"}}

InitStaff ==
    /\ teachers = {}
    /\ school_flags = FlagsOf({})
    /\ courses = <<>>
    /\ payments = <<>>
    /\ exams = <<>>
    /\ schedules = EmptyBag
    /\ procs = [w \in Workers |-> Idle]
    /\ resp = Response("none", "ok")

NextStaff ==
    \/ \E caller \in TeacherCallers, req \in TeacherRequests :
           /\ CreateTeacherError(caller, req) = "ok" => Cardinality(teachers) < MaxTeachers
           /\ create_teacher(caller, req)
    \/ \E req \in StaffCourseRequests :
           CourseRoom(req, MaxStaffCourses) /\ create_course(req)

SpecStaff == InitStaff /\ [][NextStaff]_vars

\* C28: every Teacher record links to a User whose role is teacher and has
\* the gender of that User, so that comparing a student's gender with the
\* Teacher record's gender and with the linked User's gender agree.
C28_TeacherGenderDenormalized ==
    \A t \in teachers :
        /\ FindUser(t.user_id) # None
        /\ FindUser(t.user_id).role = "teacher"
        /\ t.gender = FindUser(t.user_id).gender

\* C31: in every reachable state every student who has a parking course
\* that is not failed has a completed code course, and every student who has
\* a road course that is not failed has a completed parking course.
C31_PrerequisiteChainInvariant ==
    \A s \in Students :
        /\ LiveCourses(s, "parking") # {} => CompletedCourses(s, "code") # {}
        /\ LiveCourses(s, "road") # {} => CompletedCourses(s, "parking") # {}

----------------------------------------------------------------------------
(* The school specification: enrollments that name either school, with     *)
(* teachers who both belong to school sch1, and their payments.            *)

MaxSchoolCourses == 2

SchoolRequests ==
    {CourseCreate(s, t, d, ty, st) :
        s \in {"s1", "s2"}, t \in {"t1", "t2"}, d \in {"sch1", "sch2", "nowhere"},
        ty \in {"code", "parking"}, st \in {"not_started", "completed"}}

NextSchool ==
    \/ \E req \in SchoolRequests :
           CourseRoom(req, MaxSchoolCourses) /\ create_course(req)
    \/ \E p \in 1..MaxSchoolCourses, st \in {"completed", "refunded"} :
           update_payment(Manager, p, st)

SpecSchool == Init /\ [][NextSchool]_vars

\* C32: the driving_school_id of every Course is the driving_school_id of
\* the Teacher the course references, and the Payment of the course has the
\* price that school asks for the course type.
C32_CourseInTeachersSchool ==
    /\ \A i \in 1..Len(courses) :
          courses[i].driving_school_id
              = FindTeacher(teachers, courses[i].teacher_id).driving_school_id
    /\ \A p \in 1..Len(payments) :
          LET course == courses[payments[p].course_id]
              teacher == FindTeacher(teachers, course.teacher_id)
          IN  payments[p].amount
                  = CoursePrice(FindSchool(teacher.driving_school_id), course.type)

----------------------------------------------------------------------------
(* The concurrent specification: two workers run create_course requests    *)
(* whose Record Store accesses interleave.                                 *)

MaxConcCourses == 2

ConcRequests ==
    {CourseCreate(s, t, "sch1", ty, st) :
        s \in {"s1", "s2"}, t \in {"t1", "t2"}, ty \in {"code", "parking"},
        st \in {"not_started", "completed"}}

NextConc ==
    \/ \E w \in Workers, req \in ConcRequests :
           /\ Len(courses) + Cardinality(InFlight) < MaxConcCourses
           /\ cc_begin(w, req)
    \/ \E w \in Workers : cc_prereq(w)
    \/ \E w \in Workers : cc_dup(w)
    \/ \E w \in Workers : cc_insert_course(w)
    \/ \E w \in Workers : cc_insert_payment(w)
    \/ \E w \in Workers : cc_insert_raises(w)

SpecConc == Init /\ [][NextConc]_vars

\* C6: every Course in the store has a Payment bound to it, also between the
\* steps of a running create_course and after a failed write.
C6_CourseHasPayment ==
    \A i \in 1..Len(courses) : \E p \in 1..Len(payments) : payments[p].course_id = i

\* C8: of two concurrent create_course requests for the same student and
\* type at most one succeeds: the student never has two non-failed courses of
\* one type.
C8_ConcurrentEnrollOnce ==
    ~ \E i, j \in 1..Len(courses) :
        /\ i # j
        /\ courses[i].student_id = courses[j].student_id
        /\ courses[i].type = courses[j].type
        /\ courses[i].status # "failed"
        /\ courses[j].status # "failed"

----------------------------------------------------------------------------
(* The concurrent outcome specifications: student s1 is enrolled in a code *)
(* course with teacher t1, the payment is pending and an exam of the       *)
(* course is scheduled; two workers record outcomes.  In the first         *)
(* specification both record exam outcomes, in the second exam and payment *)
(* outcomes.                                                               *)

InitOutcome ==
    /\ teachers = InitTeachers
    /\ school_flags = FlagsOf(InitTeachers)
    /\ courses = << NewCourse(CourseCreate("s1", "t1", "sch1", "code", "not_started")) >>
    /\ payments = << NewPayment(1, CoursePrice(FindSchool("sch1"), "code")) >>
    /\ exams = << [course_id |-> 1, status |-> "scheduled"] >>
    /\ schedules = EmptyBag
    /\ procs = [w \in Workers |-> Idle]
    /\ resp = Response("none", "ok")

OutcomeCallers == {u \in Users : u.id \in {"m1", "s1", "s2"}}

NextExamConc ==
    \/ \E w \in Workers, caller \in OutcomeCallers, e \in {1, 2}, st \in ExamStatus :
           ue_begin(w, caller, e, st)
    \/ \E w \in Workers : ue_write_exam(w)
    \/ \E w \in Workers : ue_write_course(w)
    \/ \E w \in Workers : ue_return(w)

SpecExamConc == InitOutcome /\ [][NextExamConc]_vars

NextOutcomeConc ==
    \/ \E w \in Workers, e \in {1, 2}, st \in {"passed", "failed"} :
           ue_begin(w, Manager, e, st)
    \/ \E w \in Workers : ue_write_exam(w)
    \/ \E w \in Workers : ue_write_course(w)
    \/ \E w \in Workers : ue_return(w)
    \/ \E w \in Workers, caller \in OutcomeCallers, p \in {1, 2},
          st \in {"completed", "refunded"} :
           up_begin(w, caller, p, st)
    \/ \E w \in Workers : up_write_payment(w)
    \/ \E w \in Workers : up_write_course(w)
    \/ \E w \in Workers : up_return(w)

SpecOutcomeConc == InitOutcome /\ [][NextOutcomeConc]_vars

\* C29: once the update_exam calls that ran concurrently on the only exam of
\* a course have finished, the course's status corresponds to the exam's
\* stored status: exam passed and course completed, or exam failed and
\* course failed.
C29_ExamAndCourseAgree ==
    InFlight = {} =>
        \A e \in 1..Len(exams) :
            /\ exams[e].status = "passed" => courses[exams[e].course_id].status = "completed"
            /\ exams[e].status = "failed" => courses[exams[e].course_id].status = "failed"

\* C30: the course write of update_payment is applied only to a course that
\* is not_started at the instant of the write: a step that puts a Course
\* in_progress finds it not_started.
C30_PaymentKeepsExamOutcome ==
    [][\A i \in 1..Len(courses) :
          (courses'[i].status = "in_progress" /\ courses[i].status # "in_progress")
              => courses[i].status = "not_started"]_vars

----------------------------------------------------------------------------
(* The full concurrent specification: two workers run create_course,       *)
(* create_schedule, update_exam and update_payment requests whose Record   *)
(* Store accesses interleave, for student s1 and teacher t1; exams are     *)
(* created in one step.                                                    *)

MaxAllCourses == 2
MaxAllExams == 1
MaxAllSchedules == 1

AllCourseRequests ==
    {CourseCreate("s1", "t1", "sch1", "code", st) : st \in {"not_started", "completed"}}
    \cup {CourseCreate("s1", "t1", "sch1", "parking", "in_progress")}

AllScheduleRequests == {ScheduleCreate(c, 0, 60) : c \in 1..MaxAllCourses}

\* the workers that are in a create_course or in a create_schedule
Inserting(pcs) == {w \in Workers : procs[w].pc \in pcs}

NextAll ==
    \/ \E w \in Workers, req \in AllCourseRequests :
           /\ Len(courses)
                + Cardinality(Inserting({"prereq", "dup", "insert_course", "insert_payment"}))
                   < MaxAllCourses
           /\ cc_begin(w, req)
    \/ \E w \in Workers : cc_prereq(w)
    \/ \E w \in Workers : cc_dup(w)
    \/ \E w \in Workers : cc_insert_course(w)
    \/ \E w \in Workers : cc_insert_payment(w)
    \/ \E c \in 1..MaxAllCourses :
           /\ InFlight = {}
           /\ ExamRoom(Manager, c, MaxAllExams)
           /\ create_exam(Manager, c, "scheduled")
    \/ \E w \in Workers, e \in 1..MaxAllExams, st \in {"passed", "failed"} :
           ue_begin(w, Manager, e, st)
    \/ \E w \in Workers : ue_write_exam(w)
    \/ \E w \in Workers : ue_write_course(w)
    \/ \E w \in Workers : ue_return(w)
    \/ \E w \in Workers, p \in 1..MaxAllCourses :
           up_begin(w, Manager, p, "completed")
    \/ \E w \in Workers : up_write_payment(w)
    \/ \E w \in Workers : up_write_course(w)
    \/ \E w \in Workers : up_return(w)
    \/ \E w \in Workers, req \in AllScheduleRequests :
           /\ BagCardinality(schedules)
                + Cardinality(Inserting({"existing", "day", "insert_schedule"}))
                   < MaxAllSchedules
           /\ cs_begin(w, Manager, req)
    \/ \E w \in Workers : cs_existing(w)
    \/ \E w \in Workers : cs_day(w)
    \/ \E w \in Workers : cs_insert(w)

SpecAll == Init /\ [][NextAll]_vars

\* C33: a Course whose status differs from not_started has a status that
\* differs from not_started after every step of create_course,
\* create_schedule, update_exam and update_payment, however the requests
\* interleave.
C33_NeverBackToNotStarted ==
    [][\A i \in 1..Len(courses) :
          courses[i].status # "not_started" => courses'[i].status # "not_started"]_vars

\* a course that was put in progress by its payment has failed its exam, and
\* another request is on its way to write the course
C33_Witness ==
    /\ Len(courses) >= 1 /\ courses[1].status = "failed"
    /\ payments[1].status = "completed"
    /\ Len(exams) = 1 /\ exams[1].status = "failed"
    /\ \E w \in Workers : procs[w].pc \in {"ue_write_course", "up_write_course"}

----------------------------------------------------------------------------
(* The scheduling specification: create_schedule requests on a store in    *)
(* which student s1 went through code and parking with teacher t1 (failing *)
(* parking once) and enrolled in road, and student s2 enrolled in code     *)
(* with teacher t2.                                                        *)

MaxSchedules == 2

SchedCourse(type, student_id, teacher_id, status) ==
    [type |-> type, student_id |-> student_id, teacher_id |-> teacher_id,
     driving_school_id |-> "sch1", status |-> status]

SchedCourses ==
    << SchedCourse("code", "s1", "t1", "completed"),
       SchedCourse("parking", "s1", "t1", "failed"),
       SchedCourse("parking", "s1", "t1", "completed"),
       SchedCourse("road", "s1", "t1", "not_started"),
       SchedCourse("code", "s2", "t2", "not_started") >>

InitSched ==
    /\ teachers = InitTeachers
    /\ school_flags = FlagsOf(InitTeachers)
    /\ courses = SchedCourses
    /\ payments = [i \in 1..Len(SchedCourses) |->
           NewPayment(i, CoursePrice(FindSchool("sch1"), SchedCourses[i].type))]
    /\ exams = << [course_id |-> 1, status |-> "passed"],
                  [course_id |-> 2, status |-> "failed"],
                  [course_id |-> 3, status |-> "passed"] >>
    /\ schedules = EmptyBag
    /\ procs = [w \in Workers |-> Idle]
    /\ resp = Response("none", "ok")

\* instants of two days, on the hour and on the half hour
Dates == {0, 30, 60, 120, 1440}
Durations == {60, 120}
SchedCallers == {u \in Users : u.id \in {"s1", "tu1", "tu2"}}

\* every course (and an id that resolves to none) at every instant for every
\* duration
ScheduleRequests ==
    {ScheduleCreate(c, d, m) : c \in 1..(Len(SchedCourses) + 1), d \in Dates, m \in Durations}

\* the requests issued by callers other than the manager
CallerRequests ==
    {ScheduleCreate(c, d, 60) : c \in 1..(Len(SchedCourses) + 1), d \in {0, 60}}

ScheduleRoom(caller, req, max) ==
    CreateScheduleError(teachers, courses, schedules, caller, req) = "ok"
        => BagCardinality(schedules) < max

NextSched ==
    \/ \E req \in ScheduleRequests :
           ScheduleRoom(Manager, req, MaxSchedules) /\ create_schedule(Manager, req)
    \/ \E caller \in SchedCallers, req \in CallerRequests :
           ScheduleRoom(caller, req, MaxSchedules) /\ create_schedule(caller, req)

SpecSched == InitSched /\ [][NextSched]_vars

----------------------------------------------------------------------------
(* The daily-limit specification: the manager books teacher t1's courses   *)
(* often enough to fill a day.                                             *)

MaxDaySchedules == 4

DayDates == {0, 30, 60, 120, 180, 1440}

DayRequests ==
    {ScheduleCreate(c, d, m) : c \in {2, 3, 4}, d \in DayDates, m \in Durations}
    \cup {ScheduleCreate(c, d, 60) : c \in {1, 5}, d \in {0}}

NextDay ==
    \E req \in DayRequests :
        ScheduleRoom(Manager, req, MaxDaySchedules) /\ create_schedule(Manager, req)

SpecDay == InitSched /\ [][NextDay]_vars

----------------------------------------------------------------------------
(* The capacity specification: the manager books the code course of        *)
(* teacher t1 into two consecutive hours, for one hour or for two, until   *)
(* an hour is full; the parking course of t1 and the code course of t2     *)
(* are booked beside it.                                                   *)

MaxCapSchedules == 21

CapRequests ==
    {ScheduleCreate(1, d, m) : d \in {0, 60}, m \in Durations}
    \cup {ScheduleCreate(c, 0, 60) : c \in {3, 5}}

NextCap ==
    \E req \in CapRequests :
        ScheduleRoom(Manager, req, MaxCapSchedules) /\ create_schedule(Manager, req)

SpecCap == InitSched /\ [][NextCap]_vars

----------------------------------------------------------------------------
(* The concurrent scheduling specification: two workers run                *)
(* create_schedule requests whose Record Store accesses interleave, each   *)
(* for one hour on the hour.                                               *)

MaxConcSchedules == 4

ConcScheduleRequests ==
    {ScheduleCreate(3, d, 60) : d \in {0, 60, 120, 180}}
    \cup {ScheduleCreate(c, 0, 60) : c \in {1, 4}}

ConcScheduleCallers == {u \in Users : u.id \in {"m1", "s1"}}

NextSchedConc ==
    \/ \E w \in Workers, caller \in ConcScheduleCallers, req \in ConcScheduleRequests :
           /\ BagCardinality(schedules) + Cardinality(InFlight) < MaxConcSchedules
           /\ cs_begin(w, caller, req)
    \/ \E w \in Workers : cs_existing(w)
    \/ \E w \in Workers : cs_day(w)
    \/ \E w \in Workers : cs_insert(w)

SpecSchedConc == InitSched /\ [][NextSchedConc]_vars

----------------------------------------------------------------------------
(* Properties of scheduling *)

\* the stored schedule is bound to a parking or road course
Practical(x) == courses[x.course_id].type \in {"parking", "road"}

\* the half-open intervals [date, date + duration_minutes) share an instant
Overlap(x, y) ==
    /\ x.date < y.date + y.duration_minutes
    /\ y.date < x.date + x.duration_minutes

\* C9: no two stored Schedules of parking or road courses of one teacher
\* have overlapping intervals [date, date + duration_minutes).
C9_NoOverlap ==
    \A x, y \in BagToSet(schedules) :
        ( /\ x # y \/ schedules[x] >= 2
          /\ Practical(x) /\ Practical(y)
          /\ courses[x.course_id].teacher_id = courses[y.course_id].teacher_id )
        => ~Overlap(x, y)

\* the number of stored Schedules of a teacher's courses of a type that start
\* on a calendar day (days counted from the epoch)
BookedOn(teacher_id, type, day) ==
    LET booked == {x \in BagToSet(schedules) :
                      /\ courses[x.course_id].teacher_id = teacher_id
                      /\ courses[x.course_id].type = type
                      /\ x.date \div 1440 = day}
    IN  BagCardinality([x \in booked |-> schedules[x]])

Occupying(teacher_id, from, to) ==
    LET there == {x \in BagToSet(schedules) :
                     /\ courses[x.course_id].teacher_id = teacher_id
                     /\ x.date < to
                     /\ from < x.date + x.duration_minutes}
    IN  BagCardinality([x \in there |-> schedules[x]])

\* C11: with k Schedules of the teacher's courses already booked over the
\* requested hour-aligned interval, a further booking of a code course is
\* admitted when k < 20 and rejected with CapacityExceeded when k >= 20.
C11_CodeCapacity ==
    \A req \in CapRequests :
        courses[req.course_id].type = "code" =>
            LET k == Occupying(courses[req.course_id].teacher_id, HourStart(req.date),
                               HourStart(req.date) + req.duration_minutes)
            IN  CreateScheduleError(teachers, courses, schedules, Manager, req)
                    = IF k < 20 THEN "ok" ELSE "CapacityExceeded"

\* the number of stored Schedules of a teacher's parking and road courses
\* that start in the hour beginning at an instant
StartingIn(teacher_id, hour) ==
    LET there == {x \in BagToSet(schedules) :
                     /\ courses[x.course_id].teacher_id = teacher_id
                     /\ Practical(x)
                     /\ HourStart(x.date) = hour}
    IN  BagCardinality([x \in there |-> schedules[x]])

\* C12: under every interleaving of concurrent create_schedule requests the
\* stored Schedules satisfy the limits that the same requests, each for one
\* hour, meet when they run one after the other: per teacher at most one
\* parking or road Schedule in an hour, and at most 3 parking and at most 3
\* road Schedules on a day.
C12_SerializableLimits ==
    \A t \in teachers :
        /\ \A hour \in {0, 60, 120, 180} : StartingIn(t.id, hour) <= 1
        /\ BookedOn(t.id, "parking", 0) <= DailyLimit
        /\ BookedOn(t.id, "road", 0) <= DailyLimit

\* the step is a create_schedule that answered ok and stored one Schedule
Booked ==
    /\ resp'.op = "create_schedule" /\ resp'.err = "ok"
    /\ BagCardinality(schedules') = BagCardinality(schedules) + 1

\* a stored Schedule of the teacher ends exactly at the instant
EndsAt(teacher_id, instant) ==
    \E x \in BagToSet(schedules) :
        /\ courses[x.course_id].teacher_id = teacher_id
        /\ x.date + x.duration_minutes = instant

\* C13: a parking or road booking whose normalized start is the end instant
\* of a stored Schedule of the same teacher is accepted when no Schedule of
\* the teacher shares an instant with its interval and the teacher has fewer
\* than 3 Schedules of the type on the day.
C13_BackToBackAccepted ==
    /\ [](\A req \in DayRequests :
            LET course == courses[req.course_id]
                start == HourStart(req.date)
            IN  ( /\ course.type \in {"parking", "road"}
                  /\ EndsAt(course.teacher_id, start)
                  /\ Occupying(course.teacher_id, start, start + req.duration_minutes) = 0
                  /\ BookedOn(course.teacher_id, course.type, start \div MinutesPerDay)
                         < DailyLimit )
                => CreateScheduleError(teachers, courses, schedules, Manager, req) = "ok")
    /\ [][(resp'.op = "create_schedule" /\ resp'.err = "ok") => Booked]_vars

\* a parking booking was accepted that starts where a road booking ends
C13_Witness ==
    /\ resp = Response("create_schedule", "ok")
    /\ \E x, y \in BagToSet(schedules) :
          /\ courses[x.course_id].type = "road"
          /\ courses[y.course_id].type = "parking"
          /\ x.date + x.duration_minutes = y.date
          /\ BagCardinality(schedules) = 2

\* the callers of the scheduling specification
AllSchedCallers == SchedCallers \cup {Manager}

\* the caller is the user the course's teacher is linked to
AssignedTeacher(caller, course) ==
    /\ caller.role = "teacher"
    /\ \E t \in teachers : t.id = course.teacher_id /\ t.user_id = caller.id

\* C20: create_schedule accepts a request only from the teacher assigned to
\* the course, a manager or an admin; a request for an existing course by a
\* student or by a teacher who is not assigned to the course is rejected with
\* Forbidden, and a request rejected with Forbidden stores no Schedule.
C20_OnlyAssignedOrStaff ==
    /\ [](\A caller \in AllSchedCallers, req \in CallerRequests :
            LET err == CreateScheduleError(teachers, courses, schedules, caller, req)
            IN  /\ err = "ok" =>
                       \/ caller.role \in {"manager", "admin"}
                       \/ AssignedTeacher(caller, courses[req.course_id])
                /\ ( /\ req.course_id \in 1..Len(courses)
                     /\ \/ caller.role = "student"
                        \/ /\ caller.role = "teacher"
                           /\ ~AssignedTeacher(caller, courses[req.course_id]) )
                      => err = "Forbidden")
    /\ [][(resp'.op = "create_schedule" /\ resp'.err = "Forbidden")
              => schedules' = schedules]_vars

\* a request was rejected as forbidden while the teacher of the course has
\* room in every hour
C20_Witness ==
    /\ resp = Response("create_schedule", "Forbidden")
    /\ schedules = EmptyBag

\* C25: every stored Schedule starts at the top of an hour, the requested
\* start truncated, and keeps the requested duration.
C25_StoredStartNormalized ==
    \A x \in BagToSet(schedules) :
        /\ x.date = HourStart(x.date)
        /\ x.duration_minutes \in Durations

\* C26: a parking or road booking is answered SlotTaken whenever a stored
\* Schedule of a course of the same teacher, of whatever type, shares an
\* instant with [normalized start, normalized start + duration), also when
\* the teacher's day is full.
C26_OverlapRejected ==
    \A req \in ScheduleRequests :
        ( /\ req.course_id \in 1..Len(courses)
          /\ courses[req.course_id].type \in {"parking", "road"}
          /\ Occupying(courses[req.course_id].teacher_id, HourStart(req.date),
                       HourStart(req.date) + req.duration_minutes) > 0 )
        => CreateScheduleError(teachers, courses, schedules, Manager, req) = "SlotTaken"

\* the number of stored Schedules of a teacher's courses whose interval
\* [date, date + duration_minutes) contains the instant
Covering(teacher_id, instant) == Occupying(teacher_id, instant, instant + 1)

\* C27: at no instant do more than 20 stored Schedules of one teacher have
\* intervals [date, date + duration_minutes) that contain the instant.
C27_AtMostTwentyAtOnce ==
    \A t \in teachers, instant \in {0, 60, 120} : Covering(t.id, instant) <= CodeCapacity

\* the frame of the step when it is the create_schedule of req by caller
C34_Frame(caller, req) ==
    (resp'.op = "create_schedule" /\ create_schedule(caller, req)) =>
        /\ courses' = courses /\ exams' = exams /\ payments' = payments
        /\ resp'.err # "ok" => schedules' = schedules
        /\ resp'.err = "ok" =>
              \E x \in BagToSet(schedules') :
                  /\ x.course_id = req.course_id
                  /\ schedules' = schedules (+) SetToBag({x})

\* C34: create_schedule changes nothing but the Schedules: a rejected call
\* leaves the Schedules, Courses, Exams and Payments as they were; a
\* successful call adds exactly one Schedule, bound to the requested course,
\* and leaves every stored Schedule and every Course, Exam and Payment as it
\* was.
C34_ScheduleFrame ==
    [][/\ \A req \in ScheduleRequests : C34_Frame(Manager, req)
       /\ \A caller \in SchedCallers, req \in CallerRequests :
             C34_Frame(caller, req)]_vars

\* a road booking was added beside a stored parking booking of the same
\* teacher
C34_Witness ==
    /\ resp = Response("create_schedule", "ok")
    /\ BagCardinality(schedules) = 2
    /\ \E x, y \in BagToSet(schedules) :
          courses[x.course_id].type = "parking" /\ courses[y.course_id].type = "road"

====
